---- MODULE Spec2Model ----
(***************************************************************************)
(* Auto_dns_mapper: the Lambda handler that keeps a Route 53 A record in   *)
(* step with the lifecycle state of an EC2 instance.  The repository holds *)
(* two variants of the same program, src/auto_dns_mapping/app.py and       *)
(* src/hello_world/app.py; the variable `variant` says which one runs.     *)
(*                                                                         *)
(* Strings the program strips, lower-cases, concatenates or compares are   *)
(* sequences of one-character strings; IP addresses, which the program     *)
(* only passes through, are plain strings.                                 *)
(***************************************************************************)
EXTENDS Integers, Sequences, FiniteSets, TLC

VARIABLES
    variant,      \* which app.py is deployed
    instance,     \* EC2: what describe_instances returns for the instance
    addressing,   \* EC2: how the instance gets a public address, if at all
    zone,         \* Route 53: the record sets of the hosted zone
    pc,           \* per invocation: the call it is about to make
    dns_str,      \* per invocation: self._dns_str
    ipv4,         \* per invocation: self._ipv4
    ec2_described,\* per invocation: the snapshot set_dns fetched
    record_desc,  \* per invocation: the record the list query returned
    queries,      \* per invocation: the list_resource_record_sets calls made
    changes,      \* per invocation: the change_resource_record_sets calls made
    last_change,  \* Route 53: the changes the zone accepted last, if any
    caught,       \* per invocation: which error was raised, "" if none
    success,      \* per invocation: what set_dns returned
    response      \* per invocation: what lambda_handler returned

vars == <<variant, instance, addressing, zone, pc, dns_str, ipv4, ec2_described,
          record_desc, queries, changes, last_change, caught, success, response>>

\* ---------------------------------------------------------------- bounds

MaxInvocations == 2

Invocations == 1..MaxInvocations

\* ---------------------------------------------------------------- strings

UpperChars == <<"A","B","C","D","E","F","G","H","I","J","K","L","M",
                "N","O","P","Q","R","S","T","U","V","W","X","Y","Z">>
LowerChars == <<"a","b","c","d","e","f","g","h","i","j","k","l","m",
                "n","o","p","q","r","s","t","u","v","w","x","y","z">>
Whitespace == {" ", "\t", "\n"}

\* the characters str.lower() changes
ToLower ==
    [c \in {UpperChars[k] : k \in 1..26} |->
        LowerChars[CHOOSE k \in 1..26 : UpperChars[k] = c]]

\* str.lower(), one character
LowerChar(c) == IF c \in DOMAIN ToLower THEN ToLower[c] ELSE c

\* str.lower()
lower(s) == [k \in 1..Len(s) |-> LowerChar(s[k])]

RECURSIVE lstrip(_)
lstrip(s) ==
    IF s = <<>> THEN s
    ELSE IF s[1] \in Whitespace THEN lstrip(Tail(s)) ELSE s

RECURSIVE rstrip(_)
rstrip(s) ==
    IF s = <<>> THEN s
    ELSE IF s[Len(s)] \in Whitespace THEN rstrip(SubSeq(s, 1, Len(s) - 1)) ELSE s

\* str.strip()
strip(s) == rstrip(lstrip(s))

\* dict.get(key, default)
Get(d, key, default) == IF key \in DOMAIN d THEN d[key] ELSE default

\* json.dumps of a str
json_dumps(s) == "\"" \o s \o "\""

\* ---------------------------------------------------------------- configuration

\* os.environ['DOMAIN_NAME']
DOMAIN_NAME == <<"e","x","a","m","p","l","e",".","c","o","m">>

\* self._dns_prefix of auto_dns_mapping; hello_world has none
dns_prefix ==
    IF variant = "auto_dns_mapping"
    THEN <<"a","u","t","o","d","n","s","-">>
    ELSE <<>>

DnsTagKey == <<"d","n","s">>
LOOPBACK == "127.0.0.1"
UPSERT_TTL == 300

\* f'{self._dns_prefix}{self._dns_str}.{DOMAIN_NAME}'
record_name(d) == dns_prefix \o d \o <<".">> \o DOMAIN_NAME

\* ---------------------------------------------------------------- EC2

LifecycleStates ==
    {"pending", "running", "stopping", "stopped", "shutting-down", "terminated"}

\* the instance state-change events EC2 emits
NextStates(s) ==
    CASE s = "pending" -> {"running"}
      [] s = "running" -> {"stopping", "shutting-down"}
      [] s = "stopping" -> {"stopped"}
      [] s = "stopped" -> {"pending", "shutting-down"}
      [] s = "shutting-down" -> {"terminated"}
      [] OTHER -> {}

PublicIp == "1.2.3.4"

\* "none": no public address; "auto": one while the instance runs;
\* "elastic": one associated with the instance in every state
Addressings == {"none", "auto", "elastic"}

\* the PublicIpAddress of the instance, if it has one
AddressOf(state, how) ==
    IF how = "elastic" \/ (how = "auto" /\ state = "running") THEN {PublicIp} ELSE {}

Tag(k, v) == [Key |-> k, Value |-> v]

\* the tag lists an instance may carry
TagLists ==
    { <<Tag(<<"d","n","s">>, <<"w","e","b","1">>)>>,
      <<Tag(<<"N","a","m","e">>, <<"s","r","v">>),
        Tag(<<" ","D","N","s"," ">>, <<"W","e","b","1"," ">>)>>,
      <<Tag(<<"N","a","m","e">>, <<"s","r","v">>)>>,
      <<Tag(<<"d","n","s">>, <<" "," ">>)>> }

\* one element of the response of describe_instances: Reservations[0].Instances[0].
\* PublicIpAddress and Tags are present only when the instance has them.
Snapshot(state, ips, taglists) ==
    [k \in {"State"} \cup (IF ips = {} THEN {} ELSE {"PublicIpAddress"})
                     \cup (IF taglists = {} THEN {} ELSE {"Tags"}) |->
        CASE k = "State" -> [Name |-> state]
          [] k = "PublicIpAddress" -> CHOOSE x \in ips : TRUE
          [] k = "Tags" -> CHOOSE x \in taglists : TRUE]

\* ---------------------------------------------------------------- Route 53

Alphabet == <<"-", ".", "0","1","2","3","4","5","6","7","8","9">> \o LowerChars

Rank(c) == CHOOSE k \in 1..Len(Alphabet) : Alphabet[k] = c

\* a <= b in the order the zone lists its names
RECURSIVE NameLeq(_, _)
NameLeq(a, b) ==
    IF a = <<>> THEN TRUE
    ELSE IF b = <<>> THEN FALSE
    ELSE IF a[1] = b[1] THEN NameLeq(Tail(a), Tail(b))
    ELSE Rank(a[1]) < Rank(b[1])

\* Route 53 stores and returns names fully qualified
FQDN(n) == IF n # <<>> /\ n[Len(n)] = "." THEN n ELSE n \o <<".">>

RRSet(name, values, ttl) ==
    [Name |-> FQDN(name), Type |-> "A", TTL |-> ttl,
     ResourceRecords |-> [k \in 1..Len(values) |-> [Value |-> values[k]]]]

\* list_resource_record_sets(...)['ResourceRecordSets']: the first maxitems
\* record sets at or after (start_name, start_type); maxitems is 1 here
ListResourceRecordSets(z, start_name, start_type) ==
    LET after == {r \in z : NameLeq(FQDN(start_name), r.Name)}
    IN  IF after = {} THEN <<>>
        ELSE <<CHOOSE r \in after : \A q \in after : NameLeq(r.Name, q.Name)>>

Normalised(rrset) == [rrset EXCEPT !.Name = FQDN(rrset.Name)]

\* whether the zone accepts the change: a DELETE must match the record set's
\* current content exactly, and the value of an A record must be an address
ChangeAccepted(z, change) ==
    IF change.Action = "DELETE"
    THEN Normalised(change.ResourceRecordSet) \in z
    ELSE \A k \in DOMAIN change.ResourceRecordSet.ResourceRecords :
            change.ResourceRecordSet.ResourceRecords[k].Value # ""

\* an UPSERT that adds its record set beside the one already at the name
ApplyChange_keep(z, change) ==
    LET rr == Normalised(change.ResourceRecordSet)
    IN  IF change.Action = "DELETE" THEN z \ {rr} ELSE z \cup {rr}

\* the zone after change_resource_record_sets accepted the change
ApplyChange(z, change) ==
    LET rr == Normalised(change.ResourceRecordSet)
        others == {r \in z : ~(r.Name = rr.Name /\ r.Type = rr.Type)}
    IN  IF change.Action = "DELETE" THEN z \ {rr} ELSE others \cup {rr}

\* a record set of some other owner that sorts after every managed name
Unrelated == RRSet(<<"w","w","w",".">> \o DOMAIN_NAME, <<"9.9.9.9">>, 60)

\* the zones an invocation may find for the name of tag value web1
InitZones(prefix) ==
    LET n == prefix \o <<"w","e","b","1",".">> \o DOMAIN_NAME
    IN  { {},
          {Unrelated},
          {RRSet(n, <<"1.2.3.4">>, 300), Unrelated},
          {RRSet(n, <<"10.0.0.1", "10.0.0.2">>, 60), Unrelated} }

\* ---------------------------------------------------------------- the program

\* the tag lookup without .lower() on the value
get_dns_str_raw(tags) ==
    LET hits == {k \in 1..Len(tags) : lower(strip(tags[k].Key)) = DnsTagKey}
    IN  IF hits = {} THEN <<>>
        ELSE strip(tags[CHOOSE k \in hits : \A j \in hits : k <= j].Value)

\* next((tag['Value'].strip().lower() for tag in tags
\*       if tag['Key'].strip().lower() == 'dns'), "")
get_dns_str(tags) ==
    LET hits == {k \in 1..Len(tags) : lower(strip(tags[k].Key)) = DnsTagKey}
    IN  IF hits = {} THEN <<>>
        ELSE lower(strip(tags[CHOOSE k \in hits : \A j \in hits : k <= j].Value))

\* auto_dns_mapping reads ec2_described['Tags'], a KeyError when the instance
\* has no tags; hello_world reads ec2_described.get('Tags', [])
TagsRaise(snap) == variant = "auto_dns_mapping" /\ "Tags" \notin DOMAIN snap

\* set_dns without the check of the tag value
NoTagGuard_missing(d) == FALSE

\* `if not self._dns_str: return False`, which only auto_dns_mapping has
NoTagGuard(d) == variant = "auto_dns_mapping" /\ d = <<>>

\* the branch on instance_state with the stopped case taking the address too
address_for_stopped_keeps(state, snap, current) ==
    CASE state = "running" -> Get(snap, "PublicIpAddress", "")
      [] state = "stopped" -> Get(snap, "PublicIpAddress", LOOPBACK)
      [] OTHER -> current

\* self._ipv4 after the branch on instance_state
address_for(state, snap, current) ==
    CASE state = "running" -> Get(snap, "PublicIpAddress", "")
      [] state = "stopped" -> LOOPBACK
      [] OTHER -> current

\* the call set_dns makes after the branch on instance_state
call_for(state) == IF state = "terminated" THEN "list" ELSE "upsert"

\* an UPSERT that takes the TTL for a number of minutes
UpsertChange_minutes(d, address) ==
    [Action |-> "UPSERT",
     ResourceRecordSet |->
        [Name |-> record_name(d),
         ResourceRecords |-> <<[Value |-> address]>>,
         TTL |-> UPSERT_TTL \div 60,
         Type |-> "A"]]

\* the Changes entry _create_route53_record_set submits
UpsertChange(d, address) ==
    [Action |-> "UPSERT",
     ResourceRecordSet |->
        [Name |-> record_name(d),
         ResourceRecords |-> <<[Value |-> address]>>,
         TTL |-> UPSERT_TTL,
         Type |-> "A"]]

\* the Changes entry _delete_route53_record_set submits
DeleteChange(rd) ==
    [Action |-> "DELETE",
     ResourceRecordSet |->
        [Name |-> rd.Name,
         ResourceRecords |-> <<[Value |-> rd.ResourceRecords[1].Value]>>,
         TTL |-> rd.TTL,
         Type |-> rd.Type]]

\* a pre-check that compares the record's type, not its name
RecordMismatch_type(rd, d) == rd.Type # "A"

\* the pre-check of _delete_route53_record_set
RecordMismatch(rd, d) == rd.Name # record_name(d) \o <<".">>

\* how a call of set_dns ends: a value returned, or an exception leaving it
Returns(v) == [raised |-> FALSE, value |-> v]
Raises == [raised |-> TRUE, value |-> FALSE]

\* set_dns with no except clause
ExceptSetDns_reraise == Raises

\* `except Exception as e: ... return False` of set_dns
ExceptSetDns == Returns(FALSE)

\* `except Exception as e: ... return False` of _delete_route53_record_set
ExceptDelete == Returns(FALSE)

\* `except Exception as e: ... return False` of _create_route53_record_set
ExceptCreate == Returns(FALSE)

\* what lambda_handler returns
lambda_response(ok) ==
    [statusCode |-> IF ok THEN 200 ELSE 500,
     body |-> json_dumps(IF ok THEN "Function executed" ELSE "Function failed")]

NoResponse == [statusCode |-> 0, body |-> ""]
NoSnapshot == Snapshot("", {}, {})
NoRecord == RRSet(<<>>, <<>>, 0)

\* set_dns ends with outcome r and lambda_handler builds its response
Finish(i, r, error) ==
    /\ pc' = [pc EXCEPT ![i] = IF r.raised THEN "crashed" ELSE "returned"]
    /\ success' = [success EXCEPT ![i] = r.value]
    /\ response' = [response EXCEPT ![i] =
                        IF r.raised THEN NoResponse ELSE lambda_response(r.value)]
    /\ caught' = [caught EXCEPT ![i] = error]

Continue(i, next) ==
    /\ pc' = [pc EXCEPT ![i] = next]
    /\ UNCHANGED <<success, response, caught>>

Init ==
    /\ variant \in {"auto_dns_mapping", "hello_world"}
    /\ addressing \in Addressings
    /\ \E s \in LifecycleStates, tl \in {{}} \cup {{x} : x \in TagLists} :
            instance = Snapshot(s, AddressOf(s, addressing), tl)
    /\ zone \in InitZones(dns_prefix)
    /\ last_change = <<>>
    /\ pc = [i \in Invocations |-> "idle"]
    /\ dns_str = [i \in Invocations |-> <<>>]
    /\ ipv4 = [i \in Invocations |-> ""]
    /\ ec2_described = [i \in Invocations |-> NoSnapshot]
    /\ record_desc = [i \in Invocations |-> NoRecord]
    /\ queries = [i \in Invocations |-> <<>>]
    /\ changes = [i \in Invocations |-> <<>>]
    /\ caught = [i \in Invocations |-> ""]
    /\ success = [i \in Invocations |-> FALSE]
    /\ response = [i \in Invocations |-> NoResponse]

\* EC2 moves the instance to its next lifecycle state
StateChange ==
    /\ \E s \in NextStates(instance.State.Name) :
            instance' = Snapshot(s, AddressOf(s, addressing),
                    IF "Tags" \in DOMAIN instance THEN {instance.Tags} ELSE {})
    /\ UNCHANGED <<variant, addressing, zone, last_change, pc, dns_str, ipv4,
                   ec2_described, record_desc, queries, changes, caught, success,
                   response>>

\* A state-change event triggers lambda_handler, which constructs
\* IpToDNSMapper(instance_id) (_ipv4 = "", _dns_str = "") and calls set_dns.
\* This is set_dns up to its first Route 53 call: describe_instances, the tag
\* lookup and the branch on the instance state.  Invocations are numbered in
\* the order of their describe_instances calls.
Describe(i) ==
    /\ pc[i] = "idle"
    /\ \A j \in Invocations : j < i => pc[j] # "idle"
    /\ UNCHANGED <<variant, instance, addressing, zone, last_change, record_desc, queries, changes>>
    /\ \/ \* describe_instances raises, or returns no reservation
          /\ Finish(i, ExceptSetDns, "describe")
          /\ UNCHANGED <<dns_str, ipv4, ec2_described>>
       \/ /\ ec2_described' = [ec2_described EXCEPT ![i] = instance]
          /\ IF TagsRaise(instance)
             THEN /\ Finish(i, ExceptSetDns, "KeyError")
                  /\ UNCHANGED <<dns_str, ipv4>>
             ELSE LET d == get_dns_str(Get(instance, "Tags", <<>>))
                      state == instance.State.Name
                  IN  /\ dns_str' = [dns_str EXCEPT ![i] = d]
                      /\ IF NoTagGuard(d)
                         THEN /\ Finish(i, Returns(FALSE), "")
                              /\ UNCHANGED ipv4
                         ELSE /\ ipv4' = [ipv4 EXCEPT ![i] =
                                            address_for(state, instance, ipv4[i])]
                              /\ Continue(i, call_for(state))

\* _delete_route53_record_set up to its change call: the list query and the
\* pre-check of the name
ListRecords(i) ==
    /\ pc[i] = "list"
    /\ queries' = [queries EXCEPT ![i] = Append(@,
            [StartRecordName |-> record_name(dns_str[i]),
             StartRecordType |-> "A", MaxItems |-> "1"])]
    /\ UNCHANGED <<variant, instance, addressing, zone, last_change, dns_str, ipv4,
                   ec2_described, changes>>
    /\ \/ \* list_resource_record_sets raises
          /\ Finish(i, ExceptDelete, "list")
          /\ UNCHANGED record_desc
       \/ LET found == ListResourceRecordSets(zone, record_name(dns_str[i]), "A")
          IN  IF found = <<>>
              THEN /\ Finish(i, ExceptDelete, "IndexError")
                   /\ UNCHANGED record_desc
              ELSE /\ record_desc' = [record_desc EXCEPT ![i] = found[1]]
                   /\ IF RecordMismatch(found[1], dns_str[i])
                      THEN Finish(i, Returns(FALSE), "")
                      ELSE Continue(i, "delete")

\* change_resource_record_sets(change) called by invocation i: the zone
\* accepts and applies the change, or the call raises
Submit(i, change, except) ==
    /\ changes' = [changes EXCEPT ![i] = Append(@, change)]
    /\ \/ /\ ChangeAccepted(zone, change)
          /\ zone' = ApplyChange(zone, change)
          /\ last_change' = <<change>>
          /\ Finish(i, Returns(TRUE), "")
       \/ /\ Finish(i, except, "change")
          /\ UNCHANGED <<zone, last_change>>

\* the rest of _delete_route53_record_set: the DELETE change
Delete(i) ==
    /\ pc[i] = "delete"
    /\ Submit(i, DeleteChange(record_desc[i]), ExceptDelete)
    /\ UNCHANGED <<variant, instance, addressing, dns_str, ipv4, ec2_described,
                   record_desc, queries>>

\* _create_route53_record_set: the UPSERT change
Upsert(i) ==
    /\ pc[i] = "upsert"
    /\ Submit(i, UpsertChange(dns_str[i], ipv4[i]), ExceptCreate)
    /\ UNCHANGED <<variant, instance, addressing, dns_str, ipv4, ec2_described,
                   record_desc, queries>>

Next ==
    \/ StateChange
    \/ \E i \in Invocations :
        \/ Describe(i)
        \/ ListRecords(i)
        \/ Delete(i)
        \/ Upsert(i)

Spec == Init /\ [][Next]_vars

\* ---------------------------------------------------------------- properties

Fetched(i) == ec2_described[i].State.Name # ""
Done(i) == pc[i] \in {"returned", "crashed"}
StateOf(i) == ec2_described[i].State.Name
HasAddress(i) == "PublicIpAddress" \in DOMAIN ec2_described[i]

\* the trimmed, lower-cased value of the snapshot's dns tag; empty when the
\* snapshot has no tags, no dns tag, or a blank one
DnsTag(i) == get_dns_str(Get(ec2_described[i], "Tags", <<>>))

TargetName(i) == dns_prefix \o DnsTag(i) \o <<".">> \o DOMAIN_NAME

Executed == [statusCode |-> 200, body |-> "\"Function executed\""]
Failed == [statusCode |-> 500, body |-> "\"Function failed\""]

ListQuery(name) == [StartRecordName |-> name, StartRecordType |-> "A", MaxItems |-> "1"]

\* C1: when the fetched state is none of running, stopped, terminated and the
\* dns tag is not blank, the invocation makes no change call and ends as a
\* success.
C1_OtherStateIsNoOp ==
    \A i \in Invocations :
        (/\ Fetched(i)
         /\ StateOf(i) \notin {"running", "stopped", "terminated"}
         /\ DnsTag(i) # <<>>)
        => /\ changes[i] = <<>>
           /\ Done(i) => pc[i] = "returned" /\ success[i]

\* C2: when the snapshot has no dns tag, or a blank one, the invocation makes
\* no Route 53 call at all: no list query and no change.
C2_NoTagNoProviderCall ==
    \A i \in Invocations :
        (Fetched(i) /\ DnsTag(i) = <<>>)
        => queries[i] = <<>> /\ changes[i] = <<>>

\* C3 as stated: when the dns tag is absent or blank, set_dns does not report
\* failure and the handler returns 200, "Function executed".
C3_NoTagIsSuccess ==
    \A i \in Invocations :
        (Fetched(i) /\ DnsTag(i) = <<>> /\ Done(i))
        => pc[i] = "returned" /\ success[i] /\ response[i] = Executed

\* C3 as amended: in auto_dns_mapping, when the dns tag is absent or blank, the
\* invocation makes no Route 53 call, set_dns returns False and the handler
\* returns 500, "Function failed".
C3_NoTagIsFailure ==
    \A i \in Invocations :
        (variant = "auto_dns_mapping" /\ Fetched(i) /\ DnsTag(i) = <<>>)
        => /\ Done(i)
           /\ pc[i] = "returned" /\ ~success[i] /\ response[i] = Failed
           /\ queries[i] = <<>> /\ changes[i] = <<>>

C3_Witness ==
    \E i \in Invocations :
        /\ variant = "auto_dns_mapping"
        /\ Fetched(i) /\ "Tags" \in DOMAIN ec2_described[i] /\ DnsTag(i) = <<>>
        /\ pc[i] = "returned" /\ response[i] = Failed

\* C4: for state terminated with a dns tag that is not blank, the invocation
\* makes one list query (start name the target name, type A, one item); when
\* the returned record's name is not the target name + ".", it returns False
\* and submits no change, and a DELETE it does submit names the target.
C4_MismatchNoDelete ==
    \A i \in Invocations :
        (Fetched(i) /\ StateOf(i) = "terminated" /\ DnsTag(i) # <<>>)
        => /\ pc[i] = "list" => queries[i] = <<>> /\ changes[i] = <<>>
           /\ pc[i] # "list" => queries[i] = <<ListQuery(TargetName(i))>>
           /\ (record_desc[i] # NoRecord
                    /\ record_desc[i].Name # TargetName(i) \o <<".">>)
              => changes[i] = <<>> /\ pc[i] = "returned" /\ ~success[i]
           /\ \A k \in DOMAIN changes[i] :
                /\ changes[i][k].Action = "DELETE"
                /\ changes[i][k].ResourceRecordSet.Name = TargetName(i) \o <<".">>

C4_Witness ==
    \E i \in Invocations :
        /\ Fetched(i) /\ StateOf(i) = "terminated" /\ DnsTag(i) # <<>>
        /\ record_desc[i] = Unrelated
        /\ pc[i] = "returned" /\ ~success[i] /\ changes[i] = <<>>
        /\ Unrelated \in zone

\* C5: for state terminated, when the queried record's name is the target
\* name + ".", the invocation submits one DELETE and no UPSERT, and the DELETE
\* carries the name, all the resource values, the TTL and the type the query
\* returned.
C5_DeleteCarriesRecord ==
    \A i \in Invocations :
        (/\ Fetched(i) /\ StateOf(i) = "terminated" /\ Done(i)
         /\ record_desc[i] # NoRecord
         /\ record_desc[i].Name = TargetName(i) \o <<".">>)
        => changes[i] = <<[Action |-> "DELETE", ResourceRecordSet |-> record_desc[i]]>>

\* C6: for state running with a dns tag that is not blank and a public address
\* in the snapshot, the invocation makes no list query and submits one change:
\* an UPSERT of type A with TTL 300 and the public address as its one value.
C6_RunningUpsertsAddress ==
    \A i \in Invocations :
        (Fetched(i) /\ StateOf(i) = "running" /\ HasAddress(i) /\ DnsTag(i) # <<>>)
        => /\ queries[i] = <<>>
           /\ pc[i] \in {"upsert", "returned"}
           /\ pc[i] = "upsert" => changes[i] = <<>>
           /\ pc[i] = "returned" =>
                /\ Len(changes[i]) = 1
                /\ changes[i][1].Action = "UPSERT"
                /\ changes[i][1].ResourceRecordSet.Type = "A"
                /\ changes[i][1].ResourceRecordSet.TTL = 300
                /\ changes[i][1].ResourceRecordSet.ResourceRecords =
                        <<[Value |-> ec2_described[i].PublicIpAddress]>>

C6_Witness ==
    \E i \in Invocations :
        /\ Fetched(i) /\ StateOf(i) = "running" /\ DnsTag(i) # <<>> /\ HasAddress(i)
        /\ pc[i] = "returned" /\ success[i]
        /\ RRSet(TargetName(i), <<"1.2.3.4">>, 300) \in zone

\* C7: for state stopped with a dns tag that is not blank, the invocation
\* submits one change, an UPSERT whose one value is 127.0.0.1, whether or not
\* the snapshot holds a public address.
C7_StoppedUpsertsLoopback ==
    \A i \in Invocations :
        (Fetched(i) /\ StateOf(i) = "stopped" /\ DnsTag(i) # <<>>)
        => /\ queries[i] = <<>>
           /\ pc[i] \in {"upsert", "returned"}
           /\ pc[i] = "upsert" => changes[i] = <<>>
           /\ pc[i] = "returned" =>
                /\ Len(changes[i]) = 1
                /\ changes[i][1].Action = "UPSERT"
                /\ changes[i][1].ResourceRecordSet.ResourceRecords =
                        <<[Value |-> "127.0.0.1"]>>

C7_Witness ==
    \E i \in Invocations :
        /\ Fetched(i) /\ StateOf(i) = "stopped" /\ DnsTag(i) # <<>>
        /\ HasAddress(i) /\ ec2_described[i].PublicIpAddress = "1.2.3.4"
        /\ pc[i] = "returned" /\ success[i]
        /\ RRSet(TargetName(i), <<"127.0.0.1">>, 300) \in zone

\* the tag lists of the model that hold a dns tag with a value: both spell
\* the host web1
Web1TagLists ==
    { <<Tag(<<"d","n","s">>, <<"w","e","b","1">>)>>,
      <<Tag(<<"N","a","m","e">>, <<"s","r","v">>),
        Tag(<<" ","D","N","s"," ">>, <<"W","e","b","1"," ">>)>> }

Web1Name == <<"w","e","b","1",".","e","x","a","m","p","l","e",".","c","o","m">>
AutodnsWeb1Name == <<"a","u","t","o","d","n","s","-">> \o Web1Name

\* every name invocation i sent to Route 53 is n (n + "." in a DELETE)
NamesSent(i, n) ==
    /\ \A k \in DOMAIN queries[i] : queries[i][k].StartRecordName = n
    /\ \A k \in DOMAIN changes[i] :
            changes[i][k].ResourceRecordSet.Name =
                IF changes[i][k].Action = "DELETE" THEN n \o <<".">> ELSE n

\* C8 as stated: the record name is the trimmed, lower-cased tag value + "." +
\* the parent domain: tag dns="Web1 " with domain example.com gives
\* web1.example.com.
C8_NameIsValueDotDomain ==
    \A i \in Invocations :
        (Fetched(i) /\ Get(ec2_described[i], "Tags", <<>>) \in Web1TagLists)
        => NamesSent(i, Web1Name)

\* C8 as amended: the record name is the variant's prefix ("autodns-" in
\* auto_dns_mapping, none in hello_world) + the trimmed, lower-cased tag value
\* + "." + the parent domain; tag lists that differ only in the case or the
\* surrounding whitespace of the key and the value give the same name.
C8_NameIsPrefixValueDotDomain ==
    \A i \in Invocations :
        (Fetched(i) /\ Get(ec2_described[i], "Tags", <<>>) \in Web1TagLists)
        => /\ NamesSent(i, IF variant = "auto_dns_mapping"
                              THEN AutodnsWeb1Name ELSE Web1Name)
           /\ Done(i) => Len(queries[i]) + Len(changes[i]) >= 1

C8_Witness ==
    \E i \in Invocations :
        /\ variant = "auto_dns_mapping"
        /\ Fetched(i) /\ StateOf(i) = "stopped"
        /\ Get(ec2_described[i], "Tags", <<>>) =
                <<Tag(<<"N","a","m","e">>, <<"s","r","v">>),
                  Tag(<<" ","D","N","s"," ">>, <<"W","e","b","1"," ">>)>>
        /\ pc[i] = "returned" /\ success[i]
        /\ changes[i][1].ResourceRecordSet.Name = AutodnsWeb1Name
        /\ RRSet(AutodnsWeb1Name, <<"127.0.0.1">>, 300) \in zone

\* C9: no exception leaves set_dns: an error of describe_instances (a
\* snapshot without tags included), of the list query or of the change call
\* makes set_dns return False, with no Route 53 call after a failed lookup;
\* the handler returns 200, "Function executed" exactly when set_dns returned
\* True and 500, "Function failed" otherwise.
C9_ErrorsBecomeFalse ==
    \A i \in Invocations :
        /\ pc[i] # "crashed"
        /\ caught[i] # "" => pc[i] = "returned" /\ ~success[i]
        /\ caught[i] \in {"describe", "KeyError"} =>
                queries[i] = <<>> /\ changes[i] = <<>>
        /\ pc[i] = "returned" =>
                response[i] = (IF success[i] THEN Executed ELSE Failed)
        /\ pc[i] # "returned" => response[i] = NoResponse

C9_Witness ==
    \E i, j \in Invocations :
        /\ caught[i] \in {"describe", "KeyError"} /\ response[i] = Failed
        /\ caught[j] = "change" /\ response[j] = Failed

\* C10: invocations are not coordinated and the zone keeps whatever change it
\* accepted last: the change accepted last is what the zone holds at its name,
\* and an invocation about to submit its UPSERT is never held back by another.
C10_LastWriteWins ==
    /\ last_change # <<>> =>
            LET rr == Normalised(last_change[1].ResourceRecordSet)
                at == {r \in zone : r.Name = rr.Name /\ r.Type = rr.Type}
            IN  IF last_change[1].Action = "UPSERT" THEN at = {rr} ELSE at = {}
    /\ \A i \in Invocations : pc[i] = "upsert" => ENABLED Upsert(i)

\* the interleaving of C10: the invocation that saw the instance running
\* submits its UPSERT after the one that saw it stopped, and the record is
\* left at the public address while the instance is stopped
C10_StaleRecord ==
    \E i, j \in Invocations :
        /\ i < j
        /\ \A k \in Invocations : pc[k] \in {"idle", "returned"}
        /\ pc[i] = "returned" /\ success[i] /\ StateOf(i) = "running"
        /\ pc[j] = "returned" /\ success[j] /\ StateOf(j) = "stopped"
        /\ instance.State.Name = "stopped"
        /\ DnsTag(i) # <<>>
        /\ changes[j][1].ResourceRecordSet.ResourceRecords = <<[Value |-> "127.0.0.1"]>>
        /\ last_change = changes[i]
        /\ RRSet(TargetName(i), <<"1.2.3.4">>, 300) \in zone

====
